---- MODULE Spec2Model ----
(***************************************************************************)
(* EduFace backend (backend/app.py): the face enrollment and verification  *)
(* pipeline.  State: the in-memory identity map students_db and the image  *)
(* files under FACE_DATA_DIR.  Operations: POST /api/face/register         *)
(* (register_face) and POST /api/face/verify (verify_face).  Next to it:   *)
(* the attendance ledger attendance_db with POST /api/attendance/mark      *)
(* (mark_attendance), and the two face handlers step by step as the        *)
(* server's threads run them side by side.                                 *)
(*                                                                         *)
(* Numbers that are floats in the program (the LBPH distance, the match    *)
(* score) are kept here in hundredths; the reported confidence, which the  *)
(* program rounds to one decimal, is kept in tenths.                       *)
(***************************************************************************)
EXTENDS Integers, Sequences, FiniteSets, TLC

\* Longest images list a register request carries.
MaxImages == 2

\* Python's None, as dict.get returns it for a key the JSON body does not carry.
None == "<None>"

-----------------------------------------------------------------------------
(* Request payloads.  An image payload is a base64 string, optionally      *)
(* behind a data-URL header; the catalogue names the pictures that occur.  *)

\* Payloads a register request may list in images.
EnrollPayloads == {"bad", "alpha", "blank", "ann"}

\* Payloads a verify request may carry as image ("" is the empty string).
ProbePayloads == EnrollPayloads \cup {"", "data:image/jpeg;base64,ann", "dim", "side", "bob", "pair"}

\* The clients: what each sends as student_id and name ("" is the empty
\* string, None a key it leaves out).
Clients ==
    { [student_id |-> "s1", name |-> "Ann"],
      [student_id |-> "",   name |-> "Eve"],
      [student_id |-> None, name |-> None] }

\* student_id values a client supplies itself.
ClientIds == {c.student_id : c \in Clients} \ {None}

\* Values uuid.uuid4() can return.
UuidPool == {"u1"}

\* An id no register call ever carries.
StrangerId == "zz"

\* Every directory name under FACE_DATA_DIR, and every file path in them.
Dirs == ClientIds \cup UuidPool
Paths == Dirs \X (0 .. MaxImages - 1)

NoFile == [format |-> "none", quality |-> 0, pixels |-> "none"]

-----------------------------------------------------------------------------
(* Library behaviour the handlers rely on.                                 *)

\* PIL modes the JPEG encoder writes; any other mode raises OSError on save.
JpegModes == {"1", "L", "RGB", "RGBX", "CMYK", "YCbCr"}

JpegQuality == 85

\* data_url.split(',')[1] when the payload has a ',' (lines 136-137).
strip_header(data_url) ==
    IF data_url = "data:image/jpeg;base64,ann" THEN "ann" ELSE data_url

\* base64.b64decode + Image.open (lines 138-139): raises on bytes that are no image.
decode_base64_image(data_url) ==
    LET b64 == strip_header(data_url) IN
    IF b64 \in {"bad", ""}
    THEN [ok |-> FALSE, error |-> "cannot identify image file", pixels |-> "none", mode |-> "none"]
    ELSE [ok |-> TRUE, error |-> "", pixels |-> b64,
          mode |-> IF b64 = "alpha" THEN "RGBA" ELSE "RGB"]

\* image_to_cv2 + cv2.cvtColor(BGR2GRAY): the probe as a grayscale grid (lines 142-146, 312-313).
gray_of(img) == [pixels |-> img.pixels, jpeg |-> FALSE]

\* cv2.imread(path, IMREAD_GRAYSCALE): None for a file that is missing or no image (line 334).
imread(file) ==
    IF file.format = "JPEG" THEN [ok |-> TRUE, pixels |-> file.pixels, jpeg |-> TRUE]
    ELSE [ok |-> FALSE, pixels |-> "none", jpeg |-> FALSE]

\* face_cascade.detectMultiScale(grid, 1.3, 5): the boxes found, in scan order.
detectMultiScale(grid) ==
    CASE grid.pixels = "ann"  -> <<"ann">>
      [] grid.pixels = "dim"  -> <<"ann_dim">>
      [] grid.pixels = "side" -> <<"ann_side">>
      [] grid.pixels = "bob"  -> <<"bob">>
      [] grid.pixels = "pair" -> <<"bob", "ann">>
      [] OTHER                -> <<>>

\* grid[y:y+h, x:x+w]: the pixels of one box.
crop(grid, box) == [face |-> box, jpeg |-> grid.jpeg]

\* The LBPH chi-square distance of two crops, in hundredths.
lbph_distance(a, b) ==
    LET fs == {a.face, b.face} IN
    CASE a = b                     -> 0
      [] a.face = b.face           -> 350
      [] fs = {"ann", "ann_dim"}   -> 5996
      [] fs = {"ann", "ann_side"}  -> 6000
      [] OTHER                     -> 12000

SetMin(S) == CHOOSE m \in S : \A n \in S : m <= n

\* recognizer.train(...) then recognizer.predict(crop): distance to the nearest sample.
predict(train_faces, probe) ==
    SetMin({lbph_distance(probe, train_faces[k]) : k \in 1 .. Len(train_faces)})

\* Python round(x, 1) on a value in hundredths: the result in tenths, ties to even.
round1(h) ==
    LET q == h \div 10
        r == h % 10
    IN  IF r < 5 THEN q
        ELSE IF r > 5 THEN q + 1
        ELSE IF q % 2 = 0 THEN q ELSE q + 1

Max(a, b) == IF a >= b THEN a ELSE b

-----------------------------------------------------------------------------
(* Requests and responses.  A request is the JSON body: the keys it        *)
(* carries and their values.  A response is the status and the JSON body;  *)
(* keys names the fields the body carries, the other fields are at rest.   *)
(* match_score keeps the unrounded score of line 345 next to the response  *)
(* (-1 when none was computed).                                            *)

\* data.get(key, default)
get(data, key, default) == IF key \in data.keys THEN data[key] ELSE default

\* The place of an attendance record in a response that carries none.
NoRecord == [id |-> 0, student_id |-> "", subject |-> "", status |-> "", confidence |-> 0]

NoResponse ==
    [op |-> "none", status |-> 0, keys |-> {}, success |-> FALSE, verified |-> FALSE,
     confidence |-> 0, student_name |-> "", student_id |-> "", images_saved |-> 0,
     message |-> "", error |-> "", match_score |-> -1, attendance |-> NoRecord]

\* jsonify({'error': text}), status
error_response(op, status, text) ==
    [NoResponse EXCEPT !.op = op, !.status = status, !.keys = {"error"}, !.error = text]

internal_error_as_400(op, e) == error_response(op, 400, e)

\* except Exception as e: return jsonify({'error': str(e)}), 500
internal_error(op, e) == error_response(op, 500, e)

\* Python truthiness of a string or None: `if not x`.
falsy(x) == x \in {None, ""}

-----------------------------------------------------------------------------
(* POST /api/face/register                                                 *)

\* img.save(path, 'JPEG', quality=85) (line 275): the file it leaves at path.
jpeg_file(img) == [format |-> "JPEG", quality |-> JpegQuality, pixels |-> img.pixels]

\* The loop of lines 271-276 from index i on.  Image.save opens the path for
\* writing before the encoder runs, so a save that raises leaves no readable file.
RECURSIVE save_images(_, _, _, _, _)
save_images(student_dir, images, i, files, saved_paths) ==
    IF i >= Len(images)
    THEN [ok |-> TRUE, error |-> "", files |-> files, saved_paths |-> saved_paths]
    ELSE
      LET img  == decode_base64_image(images[i + 1])
          path == <<student_dir, i>>
      IN  IF ~img.ok
          THEN [ok |-> FALSE, error |-> img.error, files |-> files, saved_paths |-> saved_paths]
          ELSE IF img.mode \notin JpegModes
          THEN [ok |-> FALSE, error |-> "cannot write mode RGBA as JPEG",
                files |-> [files EXCEPT ![path] = NoFile], saved_paths |-> saved_paths]
          ELSE save_images(student_dir, images, i + 1,
                           [files EXCEPT ![path] = jpeg_file(img)],
                           Append(saved_paths, path))

no_images_absent_only(data) == "images" \notin data.keys

\* `if not images` (line 264), images being data.get('images', []).
no_images(data) == get(data, "images", <<>>) = <<>>

set_student_keeping_rest(db, student_id, name, face_paths) ==
    LET old == IF student_id \in DOMAIN db THEN db[student_id].face_paths ELSE <<>>
    IN  [k \in DOMAIN db \cup {student_id} |->
           IF k = student_id
           THEN [id |-> student_id, name |-> name,
                 face_paths |-> face_paths \o SubSeq(old, Len(face_paths) + 1, Len(old))]
           ELSE db[k]]

\* students_db[student_id] = {'id': ..., 'name': ..., 'face_paths': ...} (lines 279-284)
set_student(db, student_id, name, face_paths) ==
    [k \in DOMAIN db \cup {student_id} |->
       IF k = student_id
       THEN [id |-> student_id, name |-> name, face_paths |-> face_paths]
       ELSE db[k]]

\* The response of lines 286-291.
registered_response(student_id, name, saved_paths) ==
    [NoResponse EXCEPT !.op = "register", !.status = 200,
       !.keys = {"success", "student_id", "message", "images_saved"},
       !.success = TRUE, !.student_id = student_id,
       !.message = "Face registered for " \o name,
       !.images_saved = Len(saved_paths)]

\* register_face (lines 256-293) on the identity map db and the files, with
\* uuid the value uuid.uuid4() returns in this call.
register_face(db, files, data, uuid) ==
    LET student_id == get(data, "student_id", uuid)
        name       == get(data, "name", "Unknown")
        images     == get(data, "images", <<>>)
        saved      == save_images(student_id, images, 0, files, <<>>)
    IN  IF no_images(data)
        THEN [students_db |-> db, files |-> files, ok |-> FALSE, student_id |-> student_id,
              response |-> error_response("register", 400, "No face images provided")]
        ELSE IF ~saved.ok
        THEN [students_db |-> db, files |-> saved.files, ok |-> FALSE, student_id |-> student_id,
              response |-> internal_error("register", saved.error)]
        ELSE [students_db |-> set_student(db, student_id, name, saved.saved_paths),
              files |-> saved.files, ok |-> TRUE, student_id |-> student_id,
              response |-> registered_response(student_id, name, saved.saved_paths)]

-----------------------------------------------------------------------------
(* POST /api/face/verify                                                   *)

\* Lines 331-339 from the k-th stored path on: one sample per face found in
\* each stored image that can be read.
RECURSIVE train_set(_, _, _)
train_set(face_paths, files, k) ==
    IF k > Len(face_paths) THEN <<>>
    ELSE
      LET img      == imread(files[face_paths[k]])
          detected == IF img.ok THEN detectMultiScale(img) ELSE <<>>
      IN  [j \in 1 .. Len(detected) |-> crop(img, detected[j])]
            \o train_set(face_paths, files, k + 1)

is_match_inclusive(match_score) == match_score >= 40 * 100

\* match_score > 40 (lines 348, 351)
is_match(match_score) == match_score > 40 * 100

\* max(0, 100 - confidence) (line 345)
score(confidence) == Max(0, 100 * 100 - confidence)

find_student_or_first(db, student_id) ==
    IF ~falsy(student_id) /\ student_id \in DOMAIN db
    THEN [found |-> TRUE, student |-> db[student_id]]
    ELSE IF DOMAIN db # {}
    THEN [found |-> TRUE, student |-> db[CHOOSE k \in DOMAIN db : TRUE]]
    ELSE [found |-> FALSE, student |-> [id |-> "", name |-> "", face_paths |-> <<>>]]

\* `student_id and student_id in students_db`, then students_db[student_id] (lines 325-326)
find_student(db, student_id) ==
    IF ~falsy(student_id) /\ student_id \in DOMAIN db
    THEN [found |-> TRUE, student |-> db[student_id]]
    ELSE [found |-> FALSE, student |-> [id |-> "", name |-> "", face_paths |-> <<>>]]

match_response_default_name(student, match_score) ==
    [NoResponse EXCEPT !.op = "verify", !.status = 200,
       !.keys = {"verified", "confidence", "student_name", "message"},
       !.verified = is_match(match_score),
       !.confidence = round1(match_score),
       !.student_name = "Unknown",
       !.message = IF is_match(match_score) THEN "Face verified" ELSE "Face does not match",
       !.match_score = match_score]

\* The response of lines 347-352.
match_response(student, match_score) ==
    [NoResponse EXCEPT !.op = "verify", !.status = 200,
       !.keys = {"verified", "confidence", "student_name", "message"},
       !.verified = is_match(match_score),
       !.confidence = round1(match_score),
       !.student_name = student.name,
       !.message = IF is_match(match_score) THEN "Face verified" ELSE "Face does not match",
       !.match_score = match_score]

\* The response of line 322.
no_face_response ==
    [NoResponse EXCEPT !.op = "verify", !.status = 200, !.keys = {"verified", "message"},
       !.verified = FALSE, !.message = "No face detected in image"]

\* The response of line 354.
not_found_response ==
    [NoResponse EXCEPT !.op = "verify", !.status = 200, !.keys = {"verified", "message"},
       !.verified = FALSE, !.message = "Student not found"]

\* Lines 341-354: the answer for a student that was found, from the samples
\* collected.
decide(student, train_faces, gray_test, faces) ==
    IF train_faces # <<>>
    THEN match_response(student, score(predict(train_faces, crop(gray_test, faces[1]))))
    ELSE not_found_response

\* Lines 325-354: the answer once a face was found in the probe.
identify(db, files, student_id, gray_test, faces) ==
    LET hit == find_student(db, student_id)
    IN  IF hit.found
        THEN decide(hit.student, train_set(hit.student.face_paths, files, 1), gray_test, faces)
        ELSE not_found_response

verify_face_lookup_first(db, files, data) ==
    LET student_id == get(data, "student_id", None)
        image      == get(data, "image", None)
        test_img   == decode_base64_image(image)
        gray_test  == gray_of(test_img)
        faces      == detectMultiScale(gray_test)
    IN  IF falsy(image)
        THEN error_response("verify", 400, "No image provided")
        ELSE IF ~test_img.ok
        THEN internal_error("verify", test_img.error)
        ELSE IF ~find_student(db, student_id).found
        THEN not_found_response
        ELSE IF Len(faces) = 0
        THEN no_face_response
        ELSE identify(db, files, student_id, gray_test, faces)

\* verify_face (lines 298-357): the response; it changes no state.
verify_face(db, files, data) ==
    LET student_id == get(data, "student_id", None)
        image      == get(data, "image", None)
        test_img   == decode_base64_image(image)
        gray_test  == gray_of(test_img)
        faces      == detectMultiScale(gray_test)
    IN  IF falsy(image)
        THEN error_response("verify", 400, "No image provided")
        ELSE IF ~test_img.ok
        THEN internal_error("verify", test_img.error)
        ELSE IF Len(faces) = 0
        THEN no_face_response
        ELSE identify(db, files, student_id, gray_test, faces)

-----------------------------------------------------------------------------
(* POST /api/attendance/mark                                               *)

\* round(85 + np.random.random() * 15, 1) (line 379), in tenths: the two
\* ends of its range.
MarkConfidences == {850, 1000}

\* The record of lines 372-380.  uuid is the value uuid.uuid4() returns in
\* this call; date and time are the clock's reading, which nothing reads.
attendance_record(uuid, student_id, subject, confidence) ==
    [id |-> uuid, student_id |-> student_id, subject |-> subject,
     status |-> "present", confidence |-> confidence]

mark_attendance_latest_only(ledger, data, uuid, confidence) ==
    LET student_id == get(data, "student_id", None)
        subject    == get(data, "subject", "General")
        record     == attendance_record(uuid, student_id, subject, confidence)
    IN  IF falsy(student_id)
        THEN [attendance_db |-> ledger,
              response |-> error_response("mark", 400, "Student ID required")]
        ELSE [attendance_db |->
                 Append(SelectSeq(ledger, LAMBDA r : r.student_id # student_id), record),
              response |->
                 [NoResponse EXCEPT !.op = "mark", !.status = 200,
                    !.keys = {"success", "attendance", "message"},
                    !.success = TRUE, !.attendance = record,
                    !.message = "Attendance marked for " \o subject]]

\* mark_attendance (lines 362-389) on the ledger, with uuid and confidence
\* the values uuid.uuid4() and the random draw give in this call.
mark_attendance(ledger, data, uuid, confidence) ==
    LET student_id == get(data, "student_id", None)
        subject    == get(data, "subject", "General")
        record     == attendance_record(uuid, student_id, subject, confidence)
    IN  IF falsy(student_id)
        THEN [attendance_db |-> ledger,
              response |-> error_response("mark", 400, "Student ID required")]
        ELSE [attendance_db |-> Append(ledger, record),
              response |->
                 [NoResponse EXCEPT !.op = "mark", !.status = 200,
                    !.keys = {"success", "attendance", "message"},
                    !.success = TRUE, !.attendance = record,
                    !.message = "Attendance marked for " \o subject]]

-----------------------------------------------------------------------------
(* The state machine.                                                      *)

VARIABLES
    students_db,   \* students_db (line 33): student_id -> record
    attendance_db, \* attendance_db (line 34): the list of attendance records
    disk,          \* the files FACE_DATA_DIR/<student_id>/face_<i>.jpg
    client,        \* what the client sends as student_id and name; a generated student_id once one was returned
    issued,        \* the values uuid.uuid4() has returned to a register call that used one
    enrolled,      \* history: student_id -> the images list of its latest successful register
    reenrolled,    \* history: the student_ids that registered successfully more than once
    request,       \* history: the latest request, in brief
    response,      \* the response to the latest request
    calls,         \* the calls the server's threads run step by step: thread -> where its handler stands
    overlap        \* history: the pairs of threads whose calls were in progress at the same time

vars == <<students_db, attendance_db, disk, client, issued, enrolled, reenrolled,
          request, response, calls, overlap>>

\* The server (app.run, line 623) handles each request in a thread of its own.
Enrollers == {"e1", "e2"}
Verifier == "v1"
Threads == Enrollers \cup {Verifier}

\* A thread that handles no request, or has answered its request with r.
Idle ==
    [pc |-> "idle", data |-> [keys |-> {}], i |-> 0, saved_paths |-> <<>>,
     student |-> [id |-> "", name |-> "", face_paths |-> <<>>], train_faces |-> <<>>,
     response |-> NoResponse]

\* Sequences over S of length at most n.
SeqsUpTo(S, n) == UNION {[1 .. k -> S] : k \in 0 .. n}

\* A JSON body with the given values; a value of None is a key left out.
RegisterBody(student_id, name, images_key, images) ==
    [keys |-> {k \in {"student_id", "name", "images"} :
                 \/ k = "student_id" /\ student_id # None
                 \/ k = "name" /\ name # None
                 \/ k = "images" /\ images_key},
     student_id |-> student_id, name |-> name,
     images |-> IF images_key THEN images ELSE <<>>]

\* The register requests client c can send.
RegisterRequests(c) ==
    { RegisterBody(c.student_id, c.name, has, imgs) :
        has \in BOOLEAN, imgs \in SeqsUpTo(EnrollPayloads, MaxImages) }

\* Every verify request: student_id any of the known ids, another one or left out.
VerifyRequests ==
    { [keys |-> ks, student_id |-> IF "student_id" \in ks THEN id ELSE None,
       image |-> IF "image" \in ks THEN img ELSE None] :
        ks \in SUBSET {"student_id", "image"},
        id \in ClientIds \cup UuidPool \cup {StrangerId}, img \in ProbePayloads }

\* The verify requests client c can send: for its own student_id, for another one, or for none.
VerifyRequestsOf(c) ==
    { data \in VerifyRequests : data.student_id \in {c.student_id, StrangerId, None} }

Init ==
    /\ students_db = <<>>
    /\ attendance_db = <<>>
    /\ disk = [p \in Paths |-> NoFile]
    /\ client \in Clients
    /\ issued = {}
    /\ enrolled = <<>>
    /\ reenrolled = {}
    /\ request = [op |-> "none", with_id |-> FALSE, decodable |-> FALSE]
    /\ response = NoResponse
    /\ calls = [t \in Threads |-> Idle]
    /\ overlap = {}

\* A register call with a body out of requests.
Register(requests) ==
    \E data \in requests, uuid \in UuidPool \ issued :
      \E out \in {register_face(students_db, disk, data, uuid)} :
        LET used == "student_id" \notin data.keys /\ ~no_images(data)
        IN  /\ students_db' = out.students_db
            /\ disk' = out.files
            /\ issued' = IF used THEN issued \cup {uuid} ELSE issued
            /\ client' = IF used /\ out.ok
                         THEN [client EXCEPT !.student_id = out.response.student_id]
                         ELSE client
            /\ enrolled' = IF out.ok
                           THEN [k \in DOMAIN enrolled \cup {out.student_id} |->
                                   IF k = out.student_id THEN data.images ELSE enrolled[k]]
                           ELSE enrolled
            /\ reenrolled' = IF out.ok /\ out.student_id \in DOMAIN students_db
                             THEN reenrolled \cup {out.student_id} ELSE reenrolled
            /\ request' = [op |-> "register", with_id |-> "student_id" \in data.keys,
                           decodable |-> /\ data.images # <<>>
                                         /\ \A k \in 1 .. Len(data.images) :
                                              decode_base64_image(data.images[k]).ok]
            /\ response' = out.response
            /\ UNCHANGED <<attendance_db, calls, overlap>>

RegisterFace == Register(RegisterRequests(client))

VerifyFace ==
    \E data \in VerifyRequestsOf(client) :
      /\ response' = verify_face(students_db, disk, data)
      /\ request' = [op |-> "verify", with_id |-> "student_id" \in data.keys, decodable |-> FALSE]
      /\ UNCHANGED <<students_db, attendance_db, disk, client, issued, enrolled, reenrolled,
                     calls, overlap>>

Next == RegisterFace \/ VerifyFace

Spec == Init /\ [][Next]_vars

-----------------------------------------------------------------------------
(* The attendance ledger next to the face pipeline: register calls with    *)
(* one image, verify calls and mark-attendance calls.                      *)

\* Most records the ledger holds.
MaxRecords == 2

\* The register requests of client c that carry one image.
EnrollRequests(c) ==
    { RegisterBody(c.student_id, c.name, TRUE, <<img>>) : img \in {"ann", "blank"} }

\* The mark requests client c can send: for its own student_id or for one
\* never registered, with a subject or without.
MarkRequests(c) ==
    { [keys |-> {k \in {"student_id", "subject"} :
                   \/ k = "student_id" /\ student_id # None
                   \/ k = "subject" /\ subject # None},
       student_id |-> student_id, subject |-> subject] :
        student_id \in {c.student_id, StrangerId}, subject \in {"Maths", None} }

EnrollFace == Register(EnrollRequests(client))

\* A mark call.  uuid.uuid4() returns a value no record carries yet: the
\* records are numbered in the order of their creation.
MarkAttendance ==
    \E data \in MarkRequests(client), confidence \in MarkConfidences :
      \E out \in {mark_attendance(attendance_db, data, Len(attendance_db) + 1, confidence)} :
        /\ Len(out.attendance_db) <= MaxRecords
        /\ attendance_db' = out.attendance_db
        /\ response' = out.response
        /\ request' = [op |-> "mark", with_id |-> ~falsy(get(data, "student_id", None)),
                       decodable |-> FALSE]
        /\ UNCHANGED <<students_db, disk, client, issued, enrolled, reenrolled, calls, overlap>>

NextLedger == EnrollFace \/ VerifyFace \/ MarkAttendance

SpecLedger == Init /\ [][NextLedger]_vars

-----------------------------------------------------------------------------
(* Concurrent calls for one identity.  No handler takes a lock, so the    *)
(* threads interleave between any two statements.  A step here is one     *)
(* pass through the saving loop (lines 272-276), the record update with   *)
(* the response (lines 279-291), the verify call up to the record lookup  *)
(* (lines 300-329), one pass through the training loop (lines 332-339),   *)
(* or the training and prediction (lines 341-354).  Each save and each    *)
(* read of a file is taken whole: these are the schedules in which no     *)
(* two threads are inside the same file at once.                          *)

\* The identity the concurrent calls are for.
RaceId == "s1"

\* The pictures each register call lists: the two calls differ in every picture.
RaceImages(t) == IF t = "e1" THEN {"dim"} ELSE {"bob", "bad"}

RaceRegisterRequests(t) ==
    { RegisterBody(RaceId, "Ann", TRUE, imgs) : imgs \in SeqsUpTo(RaceImages(t), MaxImages) }

RaceVerifyRequests ==
    { [keys |-> {"student_id", "image"}, student_id |-> RaceId, image |-> img] :
        img \in {"ann", "blank"} }

\* The pictures of the enrollment that precedes the concurrent calls, if any.
PriorImages == SeqsUpTo({"ann"}, MaxImages)

\* The server after one register call for RaceId with the pictures in prior
\* (or after none), and no call in progress.
InitRace ==
    \E prior \in PriorImages :
      \E out \in {register_face(<<>>, [p \in Paths |-> NoFile],
                                  RegisterBody(RaceId, "Ann", TRUE, prior), "u1")} :
        /\ students_db = out.students_db
        /\ attendance_db = <<>>
        /\ disk = out.files
        /\ client = [student_id |-> RaceId, name |-> "Ann"]
        /\ issued = {}
        /\ enrolled = IF out.ok THEN [k \in {RaceId} |-> prior] ELSE <<>>
        /\ reenrolled = {}
        /\ request = [op |-> "register", with_id |-> TRUE, decodable |-> out.ok]
        /\ response = out.response
        /\ calls = [t \in Threads |-> Idle]
        /\ overlap = {}

InFlight(t) == calls[t].pc \notin {"idle", "done"}

\* Thread t answers its request with r.
Answer(t, c, r) == [calls EXCEPT ![t] = [c EXCEPT !.pc = "done", !.response = r]]

\* Thread t starts on a request that takes more than one step.
Started(t) == overlap \cup {{t, u} : u \in {x \in Threads \ {t} : InFlight(x)}}

\* register_face up to the saving loop (lines 258-269).
BeginRegister ==
    \E t \in Enrollers : \E data \in RaceRegisterRequests(t) :
      /\ calls[t].pc = "idle"
      /\ request' = [op |-> "register", with_id |-> TRUE,
                     decodable |-> /\ data.images # <<>>
                                   /\ \A k \in 1 .. Len(data.images) :
                                        decode_base64_image(data.images[k]).ok]
      /\ IF no_images(data)
         THEN /\ response' = error_response("register", 400, "No face images provided")
              /\ calls' = Answer(t, [calls[t] EXCEPT !.data = data], response')
              /\ overlap' = overlap
         ELSE /\ response' = response
              /\ calls' = [calls EXCEPT ![t] = [Idle EXCEPT !.pc = "save", !.data = data]]
              /\ overlap' = Started(t)
      /\ UNCHANGED <<students_db, attendance_db, disk, client, issued, enrolled, reenrolled>>

\* One pass through the loop of lines 271-276: decode and save image i.
SaveImage ==
    \E t \in Enrollers :
      LET c      == calls[t]
          images == c.data.images
      IN  /\ c.pc = "save"
          /\ \E saved \in {save_images(c.data.student_id, SubSeq(images, 1, c.i + 1), c.i,
                                        disk, c.saved_paths)} :
               /\ disk' = saved.files
               /\ IF saved.ok
                  THEN /\ calls' = [calls EXCEPT ![t] =
                                      [c EXCEPT !.i = c.i + 1, !.saved_paths = saved.saved_paths,
                                         !.pc = IF c.i + 1 = Len(images) THEN "update" ELSE "save"]]
                       /\ response' = response
                  ELSE /\ response' = internal_error("register", saved.error)
                       /\ calls' = Answer(t, c, response')
          /\ UNCHANGED <<students_db, attendance_db, client, issued, enrolled, reenrolled,
                         request, overlap>>

\* The record update and the response (lines 279-291).
UpdateRecord ==
    \E t \in Enrollers :
      LET c == calls[t]
          student_id == c.data.student_id
      IN  /\ c.pc = "update"
          /\ students_db' = set_student(students_db, student_id, c.data.name, c.saved_paths)
          /\ response' = registered_response(student_id, c.data.name, c.saved_paths)
          /\ calls' = Answer(t, c, response')
          /\ enrolled' = [k \in DOMAIN enrolled \cup {student_id} |->
                            IF k = student_id THEN c.data.images ELSE enrolled[k]]
          /\ reenrolled' = IF student_id \in DOMAIN students_db
                           THEN reenrolled \cup {student_id} ELSE reenrolled
          /\ UNCHANGED <<attendance_db, disk, client, issued, request, overlap>>

\* verify_face up to the lookup of the record (lines 300-329): student is the
\* record found, which a later register call replaces and never changes.
BeginVerify ==
    \E data \in RaceVerifyRequests :
      LET t    == Verifier
          test == decode_base64_image(data.image)
          hit  == find_student(students_db, data.student_id)
      IN  /\ calls[t].pc = "idle"
          /\ request' = [op |-> "verify", with_id |-> TRUE, decodable |-> FALSE]
          /\ IF /\ ~falsy(data.image) /\ test.ok
                /\ detectMultiScale(gray_of(test)) # <<>>
                /\ hit.found
             THEN /\ response' = response
                  /\ calls' = [calls EXCEPT ![t] =
                                 [Idle EXCEPT !.data = data, !.student = hit.student, !.i = 1,
                                    !.pc = IF hit.student.face_paths = <<>>
                                           THEN "predict" ELSE "train"]]
                  /\ overlap' = Started(t)
             ELSE /\ response' = verify_face(students_db, disk, data)
                  /\ calls' = Answer(t, [calls[t] EXCEPT !.data = data], response')
                  /\ overlap' = overlap
          /\ UNCHANGED <<students_db, attendance_db, disk, client, issued, enrolled, reenrolled>>

\* One pass through the loop of lines 332-339: read the i-th stored image
\* and collect its faces.
ReadSample ==
    LET t == Verifier
        c == calls[t]
        face_paths == c.student.face_paths
    IN  /\ c.pc = "train"
        /\ calls' = [calls EXCEPT ![t] =
                       [c EXCEPT !.train_faces = c.train_faces
                                    \o train_set(SubSeq(face_paths, 1, c.i), disk, c.i),
                                 !.i = c.i + 1,
                                 !.pc = IF c.i = Len(face_paths) THEN "predict" ELSE "train"]]
        /\ UNCHANGED <<students_db, attendance_db, disk, client, issued, enrolled, reenrolled,
                       request, response, overlap>>

\* Training, prediction and the response (lines 341-354).
Predict ==
    LET t == Verifier
        c == calls[t]
        gray_test == gray_of(decode_base64_image(c.data.image))
    IN  /\ c.pc = "predict"
        /\ response' = decide(c.student, c.train_faces, gray_test, detectMultiScale(gray_test))
        /\ calls' = Answer(t, c, response')
        /\ UNCHANGED <<students_db, attendance_db, disk, client, issued, enrolled, reenrolled,
                       request, overlap>>

NextRace == BeginRegister \/ SaveImage \/ UpdateRecord \/ BeginVerify \/ ReadSample \/ Predict

SpecRace == InitRace /\ [][NextRace]_vars

-----------------------------------------------------------------------------
(* The claims.  A claim about what a call answers is stated over every     *)
(* request the call could carry in the current state; a claim about what   *)
(* happened is stated over the latest response and the history variables.  *)

\* A verify request body with both keys.
VerifyBody(student_id, image) ==
    [keys |-> {"student_id", "image"}, student_id |-> student_id, image |-> image]

\* The payloads that decode (and show at least one face, or none) as a probe.
Decodable(p) == ~falsy(p) /\ decode_base64_image(p).ok
ProbeFaces(p) == detectMultiScale(gray_of(decode_base64_image(p)))

\* The training samples verify_face collects for an enrolled id.
TrainingOf(id) == train_set(students_db[id].face_paths, disk, 1)

\* C1: for every enrolled identity and every stored image of it in which a
\* face is detected, a verify call with that id and that same image answers
\* verified = true with a confidence above 40.
C1_SameImageVerifies ==
    \A id \in DOMAIN students_db :
      \A k \in 1 .. Len(students_db[id].face_paths) :
        LET file == disk[students_db[id].face_paths[k]]
            img  == imread(file)
        IN  (img.ok /\ detectMultiScale(img) # <<>>) =>
              \A p \in ProbePayloads :
                (Decodable(p) /\ jpeg_file(decode_base64_image(p)) = file) =>
                  LET r == verify_face(students_db, disk, VerifyBody(id, p))
                  IN  /\ r.status = 200
                      /\ r.verified
                      /\ "confidence" \in r.keys
                      /\ r.confidence > 40 * 10

\* C2: once an id was registered again successfully, its record lists only
\* the images of its latest successful register: as many paths as that call
\* had images, and every file verify reads for the id is the image that call
\* stored there, never one of another register call.
C2_ReenrollReplaces ==
    \A id \in reenrolled :
      LET face_paths == students_db[id].face_paths
          images     == enrolled[id]
      IN  /\ Len(face_paths) = Len(images)
          /\ \A k \in 1 .. Len(face_paths) :
               /\ face_paths[k] = <<id, k - 1>>
               /\ imread(disk[face_paths[k]]).ok =>
                    disk[face_paths[k]] = jpeg_file(decode_base64_image(images[k]))

\* C3: a register call whose images list is empty or absent answers 400,
\* creates no record and changes no record and no file, whatever student_id
\* and name it carries.
C3_EmptyImagesRejected ==
    \A student_id \in Dirs \cup {StrangerId, None}, name \in {"Ann", "Eve", None},
       has \in BOOLEAN, uuid \in UuidPool :
      LET out == register_face(students_db, disk,
                               RegisterBody(student_id, name, has, <<>>), uuid)
      IN  /\ out.response.status = 400
          /\ out.response.keys = {"error"}
          /\ out.students_db = students_db
          /\ out.files = disk

\* C3 witness: a register call was answered 400 for its missing images while an identity is enrolled.
C3_Witness ==
    /\ response.op = "register"
    /\ response.status = 400
    /\ response.error = "No face images provided"
    /\ DOMAIN students_db # {}

\* C4 as stated: in a verify response with a confidence, the confidence is
\* within [0, 100] and verified holds exactly when it is above 40.
C4_VerifiedIffConfidenceAbove40 ==
    (response.op = "verify" /\ "confidence" \in response.keys) =>
      /\ response.confidence >= 0
      /\ response.confidence <= 100 * 10
      /\ response.verified <=> (response.confidence > 40 * 10)

\* C4 amended: in a verify response with a confidence, the confidence is the
\* score max(0, 100 - d) rounded to one decimal and lies within [0, 100];
\* verified holds exactly when the unrounded score is above 40, so a score of
\* exactly 40 is not verified, a verified response reports at least 40.0 and
\* an unverified one at most 40.0.
C4_VerifiedIffScoreAbove40 ==
    (response.op = "verify" /\ "confidence" \in response.keys) =>
      /\ response.confidence >= 0
      /\ response.confidence <= 100 * 10
      /\ response.match_score >= 0
      /\ response.confidence * 10 - response.match_score \in -5 .. 5
      /\ response.verified <=> (response.match_score > 40 * 100)
      /\ response.verified => response.confidence >= 40 * 10
      /\ ~response.verified => response.confidence <= 40 * 10

\* C4 witness: a verify response whose score is exactly 40 and that is not verified.
C4_Witness ==
    /\ response.op = "verify"
    /\ "confidence" \in response.keys
    /\ response.match_score = 40 * 100
    /\ response.confidence = 40 * 10
    /\ ~response.verified

\* C5 as stated: every verify result for a supplied student_id that is an
\* enrolled identity carries student_name, whatever the outcome.
C5_NameForEveryEnrolledId ==
    \A id \in DOMAIN students_db, p \in ProbePayloads :
      Decodable(p) =>
        LET r == verify_face(students_db, disk, VerifyBody(id, p))
        IN  r.status = 200 => "student_name" \in r.keys

\* C5 amended: every verify result that carries a match decision with a
\* confidence (verified or not matching) carries student_name, and it is the
\* name in the record of the supplied student_id.
C5_NameWithEveryConfidence ==
    \A data \in VerifyRequests :
      LET r == verify_face(students_db, disk, data)
      IN  "confidence" \in r.keys =>
            /\ "student_name" \in r.keys
            /\ "student_id" \in data.keys
            /\ data.student_id \in DOMAIN students_db
            /\ r.student_name = students_db[data.student_id].name

\* C5 witness: a verify response that reports no match and carries the name of the enrolled identity.
C5_Witness ==
    /\ response.op = "verify"
    /\ "confidence" \in response.keys
    /\ ~response.verified
    /\ client.student_id \in DOMAIN students_db
    /\ response.student_name = students_db[client.student_id].name

\* C6: a verify call for an enrolled identity with a probe that shows a face,
\* when the stored images yield no training sample, answers verified = false
\* with a reason other than the one an unknown identity gets.
C6_NoTrainableDataIsDistinct ==
    \A id \in DOMAIN students_db, p \in ProbePayloads :
      (~falsy(id) /\ Decodable(p) /\ ProbeFaces(p) # <<>> /\ TrainingOf(id) = <<>>) =>
        LET r == verify_face(students_db, disk, VerifyBody(id, p))
            u == verify_face(students_db, disk, VerifyBody(StrangerId, p))
        IN  /\ r.status = 200
            /\ ~r.verified
            /\ r.message # u.message

\* C7: a verify call whose probe decodes and shows no face answers 200 with
\* verified = false and the no-face message, for every student_id: enrolled,
\* unknown or absent.
C7_NoFaceFirst ==
    \A data \in VerifyRequests :
      (Decodable(get(data, "image", None)) /\ ProbeFaces(data.image) = <<>>) =>
        LET r == verify_face(students_db, disk, data)
        IN  /\ r.status = 200
            /\ r.keys = {"verified", "message"}
            /\ ~r.verified
            /\ r.message = "No face detected in image"

\* C7 witness: the no-face answer was given while the client's identity is enrolled with a usable face.
C7_Witness ==
    /\ response.op = "verify"
    /\ response.message = "No face detected in image"
    /\ client.student_id \in DOMAIN students_db
    /\ TrainingOf(client.student_id) # <<>>

\* C8: a verify call whose student_id is absent or was never registered
\* successfully, with a probe that shows a face, answers 200 with verified =
\* false and the not-found message and no confidence, whoever else is enrolled.
C8_UnknownIdNotFound ==
    \A data \in VerifyRequests :
      LET student_id == get(data, "student_id", None)
          image      == get(data, "image", None)
      IN  (/\ student_id = None \/ student_id \notin DOMAIN enrolled
           /\ Decodable(image)
           /\ ProbeFaces(image) # <<>>) =>
            LET r == verify_face(students_db, disk, data)
            IN  /\ r.status = 200
                /\ r.keys = {"verified", "message"}
                /\ ~r.verified
                /\ r.message = "Student not found"

\* C8 witness: the not-found answer was given while the client's own identity
\* is enrolled with a usable face, so the request named another id or none.
C8_Witness ==
    /\ response.op = "verify"
    /\ response.message = "Student not found"
    /\ client.student_id = "s1"
    /\ "s1" \in DOMAIN students_db
    /\ TrainingOf("s1") # <<>>

\* C9 as stated: an image payload that does not decode, in a register or a
\* verify call, is answered with a client error (4xx) carrying the message.
C9_DecodeErrorIsClientError ==
    (response.error = decode_base64_image("bad").error) =>
      /\ response.status >= 400
      /\ response.status <= 499

\* C9 amended: an image payload that does not decode is answered with status
\* 500 and the error message, in a register call (unless an earlier image of
\* the list already failed) and in a verify call; only a missing images or
\* image field is answered 400.
C9_DecodeErrorIsServerError ==
    /\ \A data \in VerifyRequests :
         (get(data, "image", None) = "bad") =>
           LET r == verify_face(students_db, disk, data)
           IN  r.status = 500 /\ r.keys = {"error"}
                 /\ r.error = decode_base64_image("bad").error
    /\ \A data \in RegisterRequests(client), uuid \in UuidPool :
         LET images == get(data, "images", <<>>)
             r      == register_face(students_db, disk, data, uuid).response
         IN  /\ (\E k \in 1 .. Len(images) :
                   /\ images[k] = "bad"
                   /\ \A j \in 1 .. k - 1 : images[j] \in {"blank", "ann"}) =>
                  (r.status = 500 /\ r.keys = {"error"}
                     /\ r.error = decode_base64_image("bad").error)
             /\ r.status = 400 <=> images = <<>>

\* C9 witness: a verify call was answered 500 with the decoder's message.
C9_Witness ==
    /\ response.op = "verify"
    /\ response.status = 500
    /\ response.error = decode_base64_image("bad").error

\* C10: a register call with n >= 1 images that all decode succeeds, face or
\* no face: images_saved = n, the n images are stored under indexes 0 .. n-1,
\* and the record is filed under the supplied student_id, or under a
\* generated id that the response returns when none was supplied.
C10_DecodableImagesAreStored ==
    (request.op = "register" /\ request.decodable) =>
      /\ response.status = 200
      /\ response.student_id \in DOMAIN students_db
      /\ LET sid    == response.student_id
             images == enrolled[sid]
             n      == Len(images)
         IN  /\ n >= 1
             /\ response.images_saved = n
             /\ students_db[sid].face_paths = [k \in 1 .. n |-> <<sid, k - 1>>]
             /\ \A k \in 1 .. n :
                  disk[<<sid, k - 1>>] = jpeg_file(decode_base64_image(images[k]))
             /\ sid = client.student_id
             /\ request.with_id \/ (sid \in issued /\ sid \notin reenrolled)

\* C13: a register call that ends in an error response leaves the system as
\* it was: the identity map is unchanged, and for every enrolled identity the
\* samples a later verify trains on are the same as before the call.
C13_FailedEnrollChangesNothing ==
    [][(request'.op = "register" /\ response'.status >= 400) =>
         /\ students_db' = students_db
         /\ \A id \in DOMAIN students_db :
              train_set(students_db'[id].face_paths, disk', 1)
                = train_set(students_db[id].face_paths, disk, 1)]_vars

Succeeded(t) == calls[t].pc = "done" /\ calls[t].response.status = 200

\* The record of RaceId is the one the register call of thread t wrote.
RecordFrom(t) ==
    /\ Succeeded(t)
    /\ RaceId \in DOMAIN enrolled
    /\ enrolled[RaceId] = calls[t].data.images

\* The file at path is the k-th picture of the register call of thread t.
SavedBy(t, k, path) ==
    /\ k <= Len(calls[t].data.images)
    /\ decode_base64_image(calls[t].data.images[k]).ok
    /\ disk[path] = jpeg_file(decode_base64_image(calls[t].data.images[k]))

\* Both register calls succeeded, and the record comes from one of them while
\* a file at one of its paths holds a picture the other one saved.
EnrollMix ==
    \E t \in Enrollers, u \in Enrollers :
      /\ t # u
      /\ RecordFrom(t)
      /\ Succeeded(u)
      /\ \E k \in 1 .. Len(students_db[RaceId].face_paths) :
           SavedBy(u, k, students_db[RaceId].face_paths[k])

\* The samples the training loop collects from stored copies of pictures.
SamplesOf(pictures) ==
    UNION { LET img == imread(jpeg_file(decode_base64_image(p)))
            IN  {crop(img, detectMultiScale(img)[j]) : j \in 1 .. Len(detectMultiScale(img))} :
            p \in {q \in pictures : decode_base64_image(q).ok} }

\* The verify call has collected a sample of a picture in pictures.
TrainedOn(pictures) ==
    \E k \in 1 .. Len(calls[Verifier].train_faces) :
      calls[Verifier].train_faces[k] \in SamplesOf(pictures)

\* The verify call has collected samples of the pictures of two different
\* register calls.
TrainMix ==
    \/ TrainedOn({"ann"}) /\ \E t \in Enrollers : TrainedOn(RaceImages(t))
    \/ \A t \in Enrollers : TrainedOn(RaceImages(t))

\* No register call broke off after it had saved some of its images.
NoBrokenEnroll == \A t \in Enrollers : calls[t].response.status # 500

\* C12: concurrent calls for one identity race.  The mixed outcomes exist
\* (the witness below), and they come from the interleaving alone: a record
\* of one register call over a file of the other one arises only when the two
\* calls were in progress at the same time, and, as long as every register
\* call ran to its end, a verify call trains on pictures of two enrollments
\* only when some calls were in progress at the same time.
C12_MixOnlyByOverlap ==
    /\ EnrollMix => Enrollers \in overlap
    /\ (TrainMix /\ NoBrokenEnroll) => overlap # {}

\* C12 witness: both register calls have succeeded and the record comes from
\* one of them while a file at its paths is the other one's; and the verify
\* call, in progress together with a re-enrolling call, has answered after
\* training on a picture of the prior enrollment and one of the new call.
C12_Witness ==
    /\ EnrollMix
    /\ NoBrokenEnroll
    /\ calls[Verifier].pc = "done"
    /\ "confidence" \in calls[Verifier].response.keys
    /\ TrainedOn({"ann"})
    /\ \E t \in Enrollers : TrainedOn(RaceImages(t)) /\ {Verifier, t} \in overlap

====
